---- MODULE Spec2Model ----
(***************************************************************************)
(* Model of the canvas editor of src/App.tsx: the sprite registry          *)
(* (`images`), the selection / drag / hover state, the id counter, the     *)
(* un-matted original image cache, the generation workflows in flight and  *)
(* the values the event handlers close over (the state as of the last      *)
(* render of the component).                                               *)
(*                                                                         *)
(* Numbers.  Coordinates and sizes are JavaScript numbers in pixels; the   *)
(* model keeps them exactly, as integers counted in 1/Sub of a pixel.      *)
(* Scale factors 1, 1.2, 1.5, 2 are kept in tenths: 10, 12, 15, 20, and a  *)
(* product width * scale is kept as width * scale10, compared against ten  *)
(* times the other side.  scale = 0 stands for an absent `scale` field.    *)
(***************************************************************************)
EXTENDS Integers, Sequences, FiniteSets, Bags, TLC

\* ---------------------------------------------------------------- bounds
MaxSprites == 2      \* ids the session may assign (nextId stays <= MaxSprites)
MaxEvents == 4       \* user events (key, pointer, button, submission) handled in one session

MaxListed == 4       \* sprites in a registry handed to the reorder on its own

MaxWidth == 3        \* width of the images handed to the matting, in pixels
MaxHeight == 2       \* height of the images handed to the matting, in pixels

\* ------------------------------------------------------ program constants
Sub == 8                       \* sub-pixel resolution of the stored numbers
IMAGE_WIDTH == 375
PLACEHOLDER_WIDTH == 250
PLACEHOLDER_HEIGHT == 200      \* addImageToCanvas placeholder height
COLOR_DISTANCE_THRESHOLD == 20
MOVE_AMOUNT == 25
DUPLICATE_DX == 40
DUPLICATE_DY == 20
CanvasWidth == 800             \* canvas.width  = window.innerWidth
CanvasHeight == 600            \* canvas.height = window.innerHeight
SCALE_OPTIONS == {10, 12, 15, 20}
GridStep == 50                 \* spacing of the pointer grid, in pixels

Px(n) == n * Sub

\* The decoded images the generation service and the matting step can hand
\* back: natural pixel size and the content bounds computed for them.
\* 1: 400 x 300 with a transparent margin, wider on the right than on the
\* left; 2: 100 x 100, bounds = full rectangle.
GeneratedImages ==
  << [width |-> 400, height |-> 300,
      contentBounds |-> [x |-> Px(40), y |-> Px(75), width |-> Px(200), height |-> Px(150)]],
     [width |-> 100, height |-> 100,
      contentBounds |-> [x |-> Px(0), y |-> Px(0), width |-> Px(100), height |-> Px(100)]] >>

ImageIds == 1..Len(GeneratedImages)
NullImage == 0                 \* processedImage: null

\* Pointer positions the user presses / moves to (canvas coordinates).
Points ==
  { [x |-> Px(400), y |-> Px(300)],      \* canvas centre
    [x |-> Px(230), y |-> Px(200)],      \* inside a centred sprite's margin
    [x |-> Px(700), y |-> Px(550)] }     \* far from the centre

\* Lengths of the list a successful getRemixSuggestions call returns.
SuggestionCounts == {2}

ArrowKeys == {"ArrowUp", "ArrowDown", "ArrowLeft", "ArrowRight"}

NoId == -1                     \* null for selectedImageId / hoveredImageId
NoImage == [id |-> NoId]       \* null for a ProcessedImage
NoDrag == [id |-> NoId, offsetX |-> 0, offsetY |-> 0]   \* draggingImage: null
NoImageData == [width |-> 0, height |-> 0, data |-> << >>]   \* no image decoded

VARIABLES
  images,              \* useState<ProcessedImage[]>: the registry, in paint order
  selectedImageId,     \* useState<number | null>
  draggingImage,       \* useState<{id, offsetX, offsetY} | null>
  hoveredImageId,      \* useState<number | null>
  nextId,              \* useRef(0)
  originalImageCache,  \* keys of originalImageCache.current
  closureImages,       \* `images` as the handlers of the last render see it
  closureSelectedId,   \* `selectedImageId` as the handlers of the last render see it
  tasks,               \* bag of generation workflows suspended at an await
  events,              \* user events handled so far (bounded by MaxEvents)
  last,                \* the handler or continuation that ran last
  imageData,           \* processImageForTransparency: the decoded image {width, height, data}
  processed            \* processImageForTransparency: what the promise resolved with

\* the state of one processImageForTransparency call
mattingVars == << imageData, processed >>

vars == << images, selectedImageId, draggingImage, hoveredImageId, nextId,
           originalImageCache, closureImages, closureSelectedId, tasks, events, last,
           imageData, processed >>

\* ---------------------------------------------------------------- helpers
Ids(imgs) == { imgs[i].id : i \in 1..Len(imgs) }

Find(imgs, id) ==
  IF id \in Ids(imgs)
  THEN imgs[CHOOSE i \in 1..Len(imgs) : imgs[i].id = id]
  ELSE NoImage

Filter(imgs, id) == SelectSeq(imgs, LAMBDA img : img.id # id)

Map(imgs, f(_)) == [i \in 1..Len(imgs) |-> f(imgs[i])]

\* The loop run from the first sprite upward: the lowest index wins.
MaxOf_First(S) == CHOOSE m \in S : \A n \in S : m <= n

MaxOf(S) == CHOOSE m \in S : \A n \in S : n <= m

Scale10(img) == IF img.scale = 0 THEN 10 ELSE img.scale    \* img.scale || 1

\* const selectedImage = useMemo(...)
selectedImage == Find(closureImages, closureSelectedId)

\* The test without its isGenerating half.
isActionDisabled_IgnoresGenerating == selectedImage = NoImage

isActionDisabled == selectedImage = NoImage \/ selectedImage.isGenerating

\* A rectangle test that forgets the left and top edges.
InRectangle_NoLowerEdge(img, x, y) ==
  /\ 10 * x <= 10 * img.x + img.width * Scale10(img)
  /\ 10 * y <= 10 * img.y + img.height * Scale10(img)

\* getImageAtPosition: one sprite against the pointer (the loop body)
InRectangle(img, x, y) ==
  /\ 10 * x >= 10 * img.x
  /\ 10 * x <= 10 * img.x + img.width * Scale10(img)
  /\ 10 * y >= 10 * img.y
  /\ 10 * y <= 10 * img.y + img.height * Scale10(img)

\* A content test against contentBounds in image pixels, not scaled to the
\* sprite's on-screen size.
InContent_Unscaled(img, x, y) ==
  LET localX == x - img.x
      localY == y - img.y
      b == img.contentBounds
  IN /\ localX >= b.x /\ localX <= b.x + b.width
     /\ localY >= b.y /\ localY <= b.y + b.height

InContent(img, x, y) ==
  LET localX == x - img.x
      localY == y - img.y
      iw == GeneratedImages[img.processedImage].width
      ih == GeneratedImages[img.processedImage].height
      sw == img.width * Scale10(img)       \* 10 * scaledWidth
      sh == img.height * Scale10(img)      \* 10 * scaledHeight
      b == img.contentBounds
  IN  \* scaledBounds = contentBounds * (scaledWidth / processedImage.width);
      \* both sides multiplied by 10 * Sub * (image width or height)
      /\ 10 * Sub * localX * iw >= b.x * sw
      /\ 10 * Sub * localX * iw <= (b.x + b.width) * sw
      /\ 10 * Sub * localY * ih >= b.y * sh
      /\ 10 * Sub * localY * ih <= (b.y + b.height) * sh

\* A loop body that runs the content test for generating sprites too.
HitsSprite_ContentAlways(img, x, y) ==
  /\ InRectangle(img, x, y)
  /\ img.processedImage # NullImage /\ InContent(img, x, y)

HitsSprite(img, x, y) ==
  /\ InRectangle(img, x, y)
  /\ \/ img.isGenerating
     \/ img.processedImage # NullImage /\ InContent(img, x, y)

getImageAtPosition(imgs, x, y) ==
  LET hits == { i \in 1..Len(imgs) : HitsSprite(imgs[i], x, y) }
  IN IF hits = {} THEN NoImage ELSE imgs[MaxOf(hits)]

\* drawCanvas: images.forEach(img => ...) paints the sprites in list order;
\* the sequence of ids in the order they are painted.
drawCanvas(imgs) == [i \in 1..Len(imgs) |-> imgs[i].id]

\* Math.round on a coordinate: the nearest whole pixel, halves upward.
Round(v) == ((v + Sub \div 2) \div Sub) * Sub

\* drawCanvas, one sprite that holds an image: the rectangle handed to
\* ctx.drawImage, position and size in tenths of the stored unit.  A ready
\* sprite is drawn at width * scale by height * scale, a sprite that is
\* regenerating at width by height; a flipped sprite is drawn mirrored into
\* the same rectangle.
DrawnRectangle(img) ==
  IF ~img.isGenerating
  THEN [x |-> 10 * Round(img.x), y |-> 10 * Round(img.y),
        width |-> img.width * Scale10(img), height |-> img.height * Scale10(img)]
  ELSE [x |-> 10 * Round(img.x), y |-> 10 * Round(img.y),
        width |-> 10 * img.width, height |-> 10 * img.height]

\* getImageAtPosition: the rectangle the pointer is tested against, in the
\* same unit.
HitRectangle(img) ==
  [x |-> 10 * img.x, y |-> 10 * img.y,
   width |-> img.width * Scale10(img), height |-> img.height * Scale10(img)]

\* useEffect at "Cleanup for original image cache": ids of the previous
\* render that are gone from this one lose their cache entry.
CacheCleanup(cache, prev, cur) == cache \ (Ids(prev) \ Ids(cur))
\* ------------------------------------------------------- sprite records
Bounds(x, y, w, h) == [x |-> x, y |-> y, width |-> w, height |-> h]

dropX == Px(CanvasWidth) \div 2
dropY == Px(CanvasHeight) \div 2

\* A text placeholder registered as ready, not as generating.
NewTextImage_Idle(id) ==
  [ id |-> id, source |-> "text", processedImage |-> NullImage,
    x |-> dropX - Px(PLACEHOLDER_WIDTH) \div 2,
    y |-> dropY - Px(PLACEHOLDER_WIDTH) \div 2,
    width |-> Px(PLACEHOLDER_WIDTH), height |-> Px(PLACEHOLDER_WIDTH),
    isGenerating |-> FALSE,
    contentBounds |-> Bounds(0, 0, Px(PLACEHOLDER_WIDTH), Px(PLACEHOLDER_WIDTH)),
    flippedHorizontally |-> FALSE, scale |-> 0, remixSuggestions |-> -1 ]

\* handleTextSubmit: newImage
NewTextImage(id) ==
  [ id |-> id, source |-> "text", processedImage |-> NullImage,
    x |-> dropX - Px(PLACEHOLDER_WIDTH) \div 2,
    y |-> dropY - Px(PLACEHOLDER_WIDTH) \div 2,
    width |-> Px(PLACEHOLDER_WIDTH), height |-> Px(PLACEHOLDER_WIDTH),
    isGenerating |-> TRUE,
    contentBounds |-> Bounds(0, 0, Px(PLACEHOLDER_WIDTH), Px(PLACEHOLDER_WIDTH)),
    flippedHorizontally |-> FALSE, scale |-> 0, remixSuggestions |-> -1 ]

\* addImageToCanvas: newImage
NewFileImage(id) ==
  [ id |-> id, source |-> "file", processedImage |-> NullImage,
    x |-> dropX - Px(PLACEHOLDER_WIDTH) \div 2,
    y |-> dropY - Px(100),
    width |-> Px(PLACEHOLDER_WIDTH), height |-> Px(PLACEHOLDER_HEIGHT),
    isGenerating |-> TRUE,
    contentBounds |-> Bounds(0, 0, Px(PLACEHOLDER_WIDTH), Px(PLACEHOLDER_HEIGHT)),
    flippedHorizontally |-> FALSE, scale |-> 0, remixSuggestions |-> -1 ]

\* handleMultipleImageUpload: newImage
NewCombinedImage(id) ==
  [ id |-> id, source |-> "file", processedImage |-> NullImage,
    x |-> dropX - Px(IMAGE_WIDTH) \div 2,
    y |-> dropY - Px(IMAGE_WIDTH) \div 2,
    width |-> Px(IMAGE_WIDTH), height |-> Px(IMAGE_WIDTH),
    isGenerating |-> TRUE,
    contentBounds |-> Bounds(0, 0, Px(IMAGE_WIDTH), Px(IMAGE_WIDTH)),
    flippedHorizontally |-> FALSE, scale |-> 10, remixSuggestions |-> -1 ]

\* A copy that keeps the source's id.
DuplicatedImage_KeepsId(src, newId) ==
  [src EXCEPT !.x = src.x + Px(DUPLICATE_DX), !.y = src.y + Px(DUPLICATE_DY)]

\* A copy built field by field that forgets the scale factor.
DuplicatedImage_DropsScale(src, newId) ==
  [src EXCEPT !.id = newId, !.x = src.x + Px(DUPLICATE_DX), !.y = src.y + Px(DUPLICATE_DY),
              !.scale = 0]

\* handleDuplicateSelected: duplicatedImage
DuplicatedImage(src, newId) ==
  [src EXCEPT !.id = newId, !.x = src.x + Px(DUPLICATE_DX), !.y = src.y + Px(DUPLICATE_DY)]

\* handleRemixSubmit: newImage
RemixImage(src, newId) ==
  [ id |-> newId, source |-> "file", processedImage |-> src.processedImage,
    x |-> src.x + Px(DUPLICATE_DX), y |-> src.y + Px(DUPLICATE_DY),
    width |-> src.width, height |-> src.height,
    isGenerating |-> TRUE,
    contentBounds |-> Bounds(0, 0, src.width, src.height),
    flippedHorizontally |-> src.flippedHorizontally, scale |-> 0,
    remixSuggestions |-> -1 ]

\* A patch that keeps the sprite's top-left corner instead of its centre.
CompletedImage_KeepsCorner(img, fn, k, n) ==
  [img EXCEPT !.processedImage = k,
              !.contentBounds = GeneratedImages[k].contentBounds,
              !.width = Px(IMAGE_WIDTH),
              !.height = (Px(IMAGE_WIDTH) * GeneratedImages[k].height) \div GeneratedImages[k].width,
              !.isGenerating = FALSE,
              !.remixSuggestions = n,
              !.scale = IF fn = "multi" THEN img.scale ELSE 10]

\* A patch without its `scale: 1` line: the sprite keeps the scale it had.
CompletedImage_KeepsScale(img, fn, k, n) ==
  LET newWidth == Px(IMAGE_WIDTH)
      newHeight == (Px(IMAGE_WIDTH) * GeneratedImages[k].height) \div GeneratedImages[k].width
  IN [img EXCEPT !.processedImage = k,
                 !.contentBounds = GeneratedImages[k].contentBounds,
                 !.width = newWidth, !.height = newHeight,
                 !.x = (img.x + img.width \div 2) - newWidth \div 2,
                 !.y = (img.y + img.height \div 2) - newHeight \div 2,
                 !.isGenerating = FALSE,
                 !.remixSuggestions = n]

\* A patch that ends the generating state without storing the image.
CompletedImage_NoImage(img, fn, k, n) ==
  [img EXCEPT !.contentBounds = GeneratedImages[k].contentBounds,
              !.width = Px(IMAGE_WIDTH),
              !.height = (Px(IMAGE_WIDTH) * GeneratedImages[k].height) \div GeneratedImages[k].width,
              !.x = (img.x + img.width \div 2) - Px(IMAGE_WIDTH) \div 2,
              !.y = (img.y + img.height \div 2) -
                      ((Px(IMAGE_WIDTH) * GeneratedImages[k].height) \div GeneratedImages[k].width) \div 2,
              !.isGenerating = FALSE,
              !.remixSuggestions = n,
              !.scale = IF fn = "multi" THEN img.scale ELSE 10]

\* The patch of a successful generation (generateFromText / generateFromImage /
\* generateFromMultipleImages): k is the matted image, n the number of
\* suggestions returned.  Only the single-source workflows write scale: 1.
CompletedImage(img, fn, k, n) ==
  LET newWidth == Px(IMAGE_WIDTH)
      \* IMAGE_WIDTH / aspectRatio
      newHeight == (Px(IMAGE_WIDTH) * GeneratedImages[k].height) \div GeneratedImages[k].width
      currentCenterX == img.x + img.width \div 2
      currentCenterY == img.y + img.height \div 2
  IN [img EXCEPT !.processedImage = k,
                 !.contentBounds = GeneratedImages[k].contentBounds,
                 !.width = newWidth, !.height = newHeight,
                 !.x = currentCenterX - newWidth \div 2,
                 !.y = currentCenterY - newHeight \div 2,
                 !.isGenerating = FALSE,
                 !.remixSuggestions = n,
                 !.scale = IF fn = "multi" THEN img.scale ELSE 10]

\* A completion that inserts the finished sprite when its id is no longer
\* in the registry (the patch written as an upsert).
ApplyCompletion_Upsert(imgs, id, fn, k, n) ==
  IF id \in Ids(imgs)
  THEN Map(imgs, LAMBDA img : IF img.id = id THEN CompletedImage(img, fn, k, n) ELSE img)
  ELSE Append(imgs, CompletedImage(NewTextImage(id), fn, k, n))

\* A patch applied to every sprite that is generating, whatever its id.
ApplyCompletion_AllGenerating(imgs, id, fn, k, n) ==
  Map(imgs, LAMBDA img : IF img.isGenerating THEN CompletedImage(img, fn, k, n) ELSE img)

\* setImages(prev => prev.map(img => img.id === id ? {...img, ...} : img))
ApplyCompletion(imgs, id, fn, k, n) ==
  Map(imgs, LAMBDA img : IF img.id = id THEN CompletedImage(img, fn, k, n) ELSE img)

\* Outcomes of the calls into ./services/geminiService, whose source is not
\* part of the tree; taken from the interface description: a generation call
\* returns an image URL, returns none, or fails, and getRemixSuggestions
\* returns a list or fails.
GenerationOutcomes == {"imageUrl", "noImageUrl", "GenerationError"}
getRemixSuggestionsOutcomes == {"list", "SuggestionError"}

Task(id, fn, stage) == [id |-> id, fn |-> fn, stage |-> stage]
Start(id, fn) == SetToBag({Task(id, fn, "generate")})
TaskSet == BagToSet(tasks)

Event(op, id) == [op |-> op, id |-> id]

\* A user event is handled: the session's budget of events.
UserEvent == events < MaxEvents /\ events' = events + 1

\* ------------------------------------------------------------------ Init
CanvasInit ==
  /\ images = << >>
  /\ selectedImageId = NoId
  /\ draggingImage = NoDrag
  /\ hoveredImageId = NoId
  /\ nextId = 0
  /\ originalImageCache = {}
  /\ closureImages = << >>
  /\ closureSelectedId = NoId
  /\ tasks = EmptyBag
  /\ events = 0
  /\ last = Event("init", NoId)

Init ==
  /\ CanvasInit
  /\ imageData = NoImageData
  /\ processed = NoImageData

\* A discrete user event: React applies the handler's updates and renders
\* again before the next event, so the closures and the cache cleanup effect
\* see the new state.
Commit(newImages, newSelected, cache) ==
  /\ images' = newImages
  /\ selectedImageId' = newSelected
  /\ closureImages' = newImages
  /\ closureSelectedId' = newSelected
  /\ originalImageCache' = CacheCleanup(cache, closureImages, newImages)

\* ------------------------------------------------------- submissions
handleTextSubmit ==
  /\ nextId < MaxSprites
  /\ nextId' = nextId + 1
  /\ Commit(Append(images, NewTextImage(nextId)), selectedImageId, originalImageCache)
  /\ tasks' = tasks (+) Start(nextId, "text")
  /\ UserEvent
  /\ last' = Event("handleTextSubmit", nextId)
  /\ UNCHANGED mattingVars
  /\ UNCHANGED << draggingImage, hoveredImageId >>

addImageToCanvas ==
  /\ nextId < MaxSprites
  /\ nextId' = nextId + 1
  /\ Commit(Append(images, NewFileImage(nextId)), selectedImageId, originalImageCache)
  /\ tasks' = tasks (+) Start(nextId, "image")
  /\ UserEvent
  /\ last' = Event("addImageToCanvas", nextId)
  /\ UNCHANGED mattingVars
  /\ UNCHANGED << draggingImage, hoveredImageId >>

handleMultipleImageUpload ==
  /\ nextId < MaxSprites
  /\ nextId' = nextId + 1
  /\ Commit(Append(images, NewCombinedImage(nextId)), selectedImageId, originalImageCache)
  /\ tasks' = tasks (+) Start(nextId, "multi")
  /\ UserEvent
  /\ last' = Event("handleMultipleImageUpload", nextId)
  /\ UNCHANGED mattingVars
  /\ UNCHANGED << draggingImage, hoveredImageId >>
\* ------------------------------------------------- pointer interaction
\* An update that leaves the list order alone.
BringToFront_KeepsOrder(imgs, targetImage) == imgs

\* A reorder that puts the sprite first in the list (painted at the back).
BringToFront_ToBack(imgs, targetImage) == << targetImage >> \o Filter(imgs, targetImage.id)

\* prev => [...prev.filter(img => img.id !== targetImage.id), targetImage]
BringToFront(imgs, targetImage) == Append(Filter(imgs, targetImage.id), targetImage)

handleInteractionStart(p) ==
  LET targetImage == getImageAtPosition(closureImages, p.x, p.y)
  IN /\ IF targetImage # NoImage
        THEN /\ draggingImage' = [id |-> targetImage.id,
                                  offsetX |-> p.x - targetImage.x,
                                  offsetY |-> p.y - targetImage.y]
             \* setImages(prev => [...prev.filter(...), targetImage])
             /\ Commit(BringToFront(images, targetImage), targetImage.id, originalImageCache)
        ELSE /\ draggingImage' = draggingImage
             /\ Commit(images, NoId, originalImageCache)
     /\ UserEvent
     /\ last' = Event("handleInteractionStart", targetImage.id)
     /\ UNCHANGED mattingVars
     /\ UNCHANGED << hoveredImageId, nextId, tasks >>

\* A drag that keeps the sprite's rectangle inside the canvas.
Dragged_Clamped(img, p) ==
  LET Clamp(v, hi) == IF v < 0 THEN 0 ELSE IF v > hi THEN hi ELSE v
  IN IF img.id = draggingImage.id
     THEN [img EXCEPT !.x = Clamp(p.x - draggingImage.offsetX, Px(CanvasWidth) - img.width),
                      !.y = Clamp(p.y - draggingImage.offsetY, Px(CanvasHeight) - img.height)]
     ELSE img

Dragged(img, p) ==
  IF img.id = draggingImage.id
  THEN [img EXCEPT !.x = p.x - draggingImage.offsetX, !.y = p.y - draggingImage.offsetY]
  ELSE img

\* A move that also hovers a sprite that is generating.
handleInteractionMove_HoversGenerating(p) ==
  /\ IF draggingImage # NoDrag
     THEN /\ Commit(Map(images, LAMBDA img : Dragged(img, p)), selectedImageId,
                    originalImageCache)
          /\ hoveredImageId' = hoveredImageId
     ELSE /\ hoveredImageId' = getImageAtPosition(closureImages, p.x, p.y).id
          /\ Commit(images, selectedImageId, originalImageCache)
  /\ UserEvent
  /\ last' = Event("handleInteractionMove", draggingImage.id)
  /\ UNCHANGED mattingVars
  /\ UNCHANGED << draggingImage, nextId, tasks >>

handleInteractionMove(p) ==
  /\ IF draggingImage # NoDrag
     THEN LET moved == Map(images, LAMBDA img : Dragged(img, p))
          IN /\ Commit(moved, selectedImageId, originalImageCache)
             /\ hoveredImageId' = hoveredImageId
     ELSE LET targetImage == getImageAtPosition(closureImages, p.x, p.y)
          IN /\ hoveredImageId' =
                  IF targetImage # NoImage /\ ~targetImage.isGenerating
                  THEN targetImage.id ELSE NoId
             /\ Commit(images, selectedImageId, originalImageCache)
  /\ UserEvent
  /\ last' = Event("handleInteractionMove", draggingImage.id)
  /\ UNCHANGED mattingVars
  /\ UNCHANGED << draggingImage, nextId, tasks >>

\* A release that also deselects.
handleInteractionEnd_Deselects ==
  /\ draggingImage' = NoDrag
  /\ Commit(images, NoId, originalImageCache)
  /\ UserEvent
  /\ last' = Event("handleInteractionEnd", draggingImage.id)
  /\ UNCHANGED mattingVars
  /\ UNCHANGED << hoveredImageId, nextId, tasks >>

handleInteractionEnd ==
  /\ draggingImage' = NoDrag
  /\ Commit(images, selectedImageId, originalImageCache)
  /\ UserEvent
  /\ last' = Event("handleInteractionEnd", draggingImage.id)
  /\ UNCHANGED mattingVars
  /\ UNCHANGED << hoveredImageId, nextId, tasks >>

\* ------------------------------------------------------------ keyboard
Nudged(img, key) ==
  [img EXCEPT
     !.x = IF key = "ArrowLeft" THEN selectedImage.x - Px(MOVE_AMOUNT)
           ELSE IF key = "ArrowRight" THEN selectedImage.x + Px(MOVE_AMOUNT)
           ELSE selectedImage.x,
     !.y = IF key = "ArrowUp" THEN selectedImage.y - Px(MOVE_AMOUNT)
           ELSE IF key = "ArrowDown" THEN selectedImage.y + Px(MOVE_AMOUNT)
           ELSE selectedImage.y]

\* handleKeyDown, arrow keys
handleArrowKey(key) ==
  /\ ~(closureSelectedId = NoId \/ isActionDisabled)
  /\ Commit(Map(images, LAMBDA img :
              IF img.id = closureSelectedId THEN Nudged(img, key) ELSE img),
            selectedImageId, originalImageCache)
  /\ UserEvent
  /\ last' = Event(key, closureSelectedId)
  /\ UNCHANGED mattingVars
  /\ UNCHANGED << draggingImage, hoveredImageId, nextId, tasks >>

\* ------------------------------------------------- actions on the selection
handleDeleteSelected ==
  /\ ~isActionDisabled
  /\ Commit(Filter(images, closureSelectedId), NoId, originalImageCache)
  /\ UserEvent
  /\ last' = Event("handleDeleteSelected", closureSelectedId)
  /\ UNCHANGED mattingVars
  /\ UNCHANGED << draggingImage, hoveredImageId, nextId, tasks >>

handleRegenerateSelected ==
  LET imageToRegen == Find(closureImages, closureSelectedId)
  IN /\ ~isActionDisabled
     /\ imageToRegen # NoImage
     /\ Commit(Map(images, LAMBDA img :
                 IF img.id = closureSelectedId
                 THEN [img EXCEPT !.isGenerating = TRUE] ELSE img),
               selectedImageId, originalImageCache)
     /\ tasks' = tasks (+) Start(imageToRegen.id,
                   IF imageToRegen.source = "file" THEN "image" ELSE "text")
     /\ UserEvent
     /\ last' = Event("handleRegenerateSelected", closureSelectedId)
     /\ UNCHANGED mattingVars
     /\ UNCHANGED << draggingImage, hoveredImageId, nextId >>

handleFlipSelected ==
  LET imageToFlip == Find(closureImages, closureSelectedId)
  IN /\ ~isActionDisabled
     /\ imageToFlip # NoImage
           /\ Commit(Map(images, LAMBDA img :
                 IF img.id = closureSelectedId
                 THEN [img EXCEPT !.flippedHorizontally = ~img.flippedHorizontally]
                 ELSE img),
               selectedImageId, originalImageCache)
     /\ UserEvent
     /\ last' = Event("handleFlipSelected", closureSelectedId)
     /\ UNCHANGED mattingVars
     /\ UNCHANGED << draggingImage, hoveredImageId, nextId, tasks >>

handleDuplicateSelected ==
  LET imageToDuplicate == Find(closureImages, closureSelectedId)
  IN /\ ~isActionDisabled
     /\ imageToDuplicate # NoImage
     /\ nextId < MaxSprites
     /\ nextId' = nextId + 1
     /\ Commit(Append(images, DuplicatedImage(imageToDuplicate, nextId)), nextId,
               IF imageToDuplicate.id \in originalImageCache
               THEN originalImageCache \cup {nextId}
               ELSE originalImageCache)
     /\ UserEvent
     /\ last' = Event("handleDuplicateSelected", closureSelectedId)
     /\ UNCHANGED mattingVars
     /\ UNCHANGED << draggingImage, hoveredImageId, tasks >>

handleRemixSubmit ==
  LET imageToRemix == Find(closureImages, closureSelectedId)
  IN /\ ~isActionDisabled
     /\ imageToRemix # NoImage /\ imageToRemix.processedImage # NullImage
     /\ nextId < MaxSprites
     /\ nextId' = nextId + 1
     /\ Commit(Append(images, RemixImage(imageToRemix, nextId)), nextId,
               originalImageCache)
     /\ tasks' = tasks (+) Start(nextId, "image")
     /\ UserEvent
     /\ last' = Event("handleRemixSubmit", closureSelectedId)
     /\ UNCHANGED mattingVars
     /\ UNCHANGED << draggingImage, hoveredImageId >>

\* handleScaleChange(imageId, newScale).  The slider that calls it passes
\* selectedImage.id; the handler itself tests nothing.
handleScaleChange(imageId, newScale) ==
  /\ Commit(Map(images, LAMBDA img :
              IF img.id = imageId THEN [img EXCEPT !.scale = newScale] ELSE img),
            selectedImageId, originalImageCache)
  /\ UserEvent
  /\ last' = Event("handleScaleChange", imageId)
  /\ UNCHANGED mattingVars
  /\ UNCHANGED << draggingImage, hoveredImageId, nextId, tasks >>

handleResetCanvas ==
  /\ Commit(<< >>, selectedImageId, originalImageCache)
  /\ UserEvent
  /\ last' = Event("handleResetCanvas", NoId)
  /\ UNCHANGED mattingVars
  /\ UNCHANGED << draggingImage, hoveredImageId, nextId, tasks >>

\* ------------------------------------------------ generation workflows
\* Updates made by a workflow resumed after an await are applied to the
\* state at once; the component renders again later (Render).
\* await generateImageFromText / generateImageWithPrompt /
\* generateImageWithMultiplePrompts returned an imageUrl:
\* originalImageCache.current[id] = originalImg, then the matting starts.
GenerationReturns(t) ==
  /\ t.stage = "generate"
  /\ "imageUrl" \in GenerationOutcomes
  /\ tasks' = (tasks (-) SetToBag({t})) (+) SetToBag({Task(t.id, t.fn, "process")})
  /\ originalImageCache' = originalImageCache \cup {t.id}
  /\ events' = events
  /\ last' = Event("GenerationReturns", t.id)
  /\ UNCHANGED mattingVars
  /\ UNCHANGED << images, selectedImageId, draggingImage, hoveredImageId, nextId,
                  closureImages, closureSelectedId >>

\* A catch block that only logs: the sprite stays as it is.
Caught_KeepsSprite(t, op) ==
  /\ tasks' = tasks (-) SetToBag({t})
  /\ events' = events
  /\ last' = Event(op, t.id)
  /\ UNCHANGED mattingVars
  /\ UNCHANGED << images, selectedImageId, draggingImage, hoveredImageId, nextId,
                  originalImageCache, closureImages, closureSelectedId >>

\* catch (e) { setImages(prev => prev.filter(img => img.id !== id)) }
Caught(t, op) ==
  /\ tasks' = tasks (-) SetToBag({t})
  /\ images' = Filter(images, t.id)
  /\ events' = events
  /\ last' = Event(op, t.id)
  /\ UNCHANGED mattingVars
  /\ UNCHANGED << selectedImageId, draggingImage, hoveredImageId, nextId,
                  originalImageCache, closureImages, closureSelectedId >>

\* the generation call rejected, or returned no imageUrl
GenerationFails(t) ==
  /\ t.stage = "generate"
  /\ GenerationOutcomes \cap {"noImageUrl", "GenerationError"} # {}
  /\ Caught(t, "GenerationFails")

\* processImageForTransparency rejected (img.onerror, no 2d context,
\* transparentImage.onerror) or imageElementToFile threw
MattingRejects(t) == t.stage = "process" /\ Caught(t, "MattingRejects")

\* await getRemixSuggestions(...) rejected
SuggestionsFail(t) ==
  /\ t.stage = "process"
  /\ "SuggestionError" \in getRemixSuggestionsOutcomes
  /\ Caught(t, "SuggestionsFail")

\* matting and suggestions resolved: the completion patch
GenerationCompletes(t, k, n) ==
  /\ t.stage = "process"
  /\ tasks' = tasks (-) SetToBag({t})
  /\ "list" \in getRemixSuggestionsOutcomes
  /\ images' = ApplyCompletion(images, t.id, t.fn, k, n)
  /\ events' = events
  /\ last' = Event("GenerationCompletes", t.id)
  /\ UNCHANGED mattingVars
  /\ UNCHANGED << selectedImageId, draggingImage, hoveredImageId, nextId,
                  originalImageCache, closureImages, closureSelectedId >>

\* The component renders with the current state; the effect on [images]
\* cleans the cache against the previous render and stores prevImagesRef.
RenderPending == << images, selectedImageId >> # << closureImages, closureSelectedId >>

Render ==
  /\ RenderPending
  /\ Commit(images, selectedImageId, originalImageCache)
  /\ events' = events
  /\ last' = Event("Render", NoId)
  /\ UNCHANGED mattingVars
  /\ UNCHANGED << draggingImage, hoveredImageId, nextId, tasks >>

\* ------------------------------------------------------------------ Next
Next ==
  \/ handleTextSubmit
  \/ addImageToCanvas
  \/ handleMultipleImageUpload
  \/ \E p \in Points : handleInteractionStart(p)
  \/ \E p \in Points : handleInteractionMove(p)
  \/ handleInteractionEnd
  \/ \E key \in ArrowKeys : handleArrowKey(key)
  \/ handleDeleteSelected
  \/ handleRegenerateSelected
  \/ handleFlipSelected
  \/ handleDuplicateSelected
  \/ handleRemixSubmit
  \/ \E s \in SCALE_OPTIONS : selectedImage # NoImage /\ handleScaleChange(selectedImage.id, s)
  \/ handleResetCanvas
  \/ \E t \in TaskSet : GenerationReturns(t)
  \/ \E t \in TaskSet : GenerationFails(t)
  \/ \E t \in TaskSet : MattingRejects(t)
  \/ \E t \in TaskSet : SuggestionsFail(t)
  \/ \E t \in TaskSet, k \in ImageIds, n \in SuggestionCounts : GenerationCompletes(t, k, n)
  \/ Render

Spec == Init /\ [][Next]_vars

\* ------------------------------------------- processImageForTransparency
\* RGBA values of the pixels of the decoded images: a black background, a
\* colour near it (squared distance 388), one at squared distance exactly
\* 400, a far colour, and the far colour with alpha 0.
PixelValues ==
  { << 0, 0, 0, 255 >>, << 12, 12, 10, 255 >>, << 20, 0, 0, 255 >>,
    << 255, 0, 0, 255 >>, << 255, 0, 0, 0 >> }

\* imageData.data: the pixels row by row, four numbers each
Flatten(pixels, n) ==
  [i \in 1..(4 * n) |-> pixels[((i - 1) \div 4) + 1][((i - 1) % 4) + 1]]

\* ctx.getImageData(0, 0, canvas.width, canvas.height) of the decoded images
DecodedImages(maxWidth, maxHeight) ==
  UNION { { [width |-> w, height |-> h, data |-> Flatten(pixels, w * h)] :
              pixels \in [1..(w * h) -> PixelValues] } :
          w \in 1..maxWidth, h \in 1..maxHeight }

\* data[i], counted from 0 as in the code
At(data, i) == data[i + 1]

\* A comparison that also removes a colour exactly at the threshold.
IsBackground_Inclusive(r, g, b, bgR, bgG, bgB) ==
  (r - bgR) * (r - bgR) + (g - bgG) * (g - bgG) + (b - bgB) * (b - bgB)
    <= COLOR_DISTANCE_THRESHOLD * COLOR_DISTANCE_THRESHOLD

\* distanceSquared < colorDistanceThresholdSquared
IsBackground(r, g, b, bgR, bgG, bgB) ==
  (r - bgR) * (r - bgR) + (g - bgG) * (g - bgG) + (b - bgB) * (b - bgB)
    < COLOR_DISTANCE_THRESHOLD * COLOR_DISTANCE_THRESHOLD

\* the first loop: data[i + 3] = 0 for every pixel near the top-left colour
Matted(data) ==
  [j \in 1..Len(data) |->
     IF /\ (j - 1) % 4 = 3
        /\ IsBackground(At(data, j - 4), At(data, j - 3), At(data, j - 2),
                        At(data, 0), At(data, 1), At(data, 2))
     THEN 0
     ELSE data[j]]

\* the second loop ("Calculate tight bounding box"), from pixel n on, row by row
RECURSIVE Sweep(_, _, _, _, _)
Sweep(data, w, h, n, box) ==
  IF n >= w * h
  THEN box
  ELSE LET x == n % w
           y == n \div w
           alpha == At(data, (y * w + x) * 4 + 3)
       IN Sweep(data, w, h, n + 1,
                IF alpha > 0
                THEN [minX |-> IF x < box.minX THEN x ELSE box.minX,
                      maxX |-> IF x > box.maxX THEN x ELSE box.maxX,
                      minY |-> IF y < box.minY THEN y ELSE box.minY,
                      maxY |-> IF y > box.maxY THEN y ELSE box.maxY]
                ELSE box)

\* Bounds taken from the sweep as it ended, without a test for "nothing found".
ContentBoundsOf_NoFallback(box, w, h) ==
  Bounds(box.minX, box.minY, box.maxX - box.minX + 1, box.maxY - box.minY + 1)

\* transparentImage.onload: the bounds, or the whole image when no pixel is left
ContentBoundsOf(box, w, h) ==
  IF box.maxX >= box.minX /\ box.maxY >= box.minY
  THEN Bounds(box.minX, box.minY, box.maxX - box.minX + 1, box.maxY - box.minY + 1)
  ELSE Bounds(0, 0, w, h)

Resolved(path, data, contentBounds) ==
  [path |-> path, width |-> imageData.width, height |-> imageData.height,
   data |-> data, contentBounds |-> contentBounds]

canvasVars == << images, selectedImageId, draggingImage, hoveredImageId, nextId,
                 originalImageCache, closureImages, closureSelectedId, tasks, events, last >>

\* img.onload ran to the end: resolve({ transparentImage, contentBounds })
processImageForTransparency ==
  /\ imageData # NoImageData /\ processed = NoImageData
  /\ LET w == imageData.width
         h == imageData.height
         data == Matted(imageData.data)
         box == Sweep(data, w, h, 0, [minX |-> w, minY |-> h, maxX |-> -1, maxY |-> -1])
     IN processed' = Resolved("matted", data, ContentBoundsOf(box, w, h))
  /\ UNCHANGED << canvasVars, imageData >>

\* getImageData threw: the catch resolves with the image as it came and its
\* whole rectangle
processImageUnreadable ==
  /\ imageData # NoImageData /\ processed = NoImageData
  /\ processed' = Resolved("original", imageData.data,
                           Bounds(0, 0, imageData.width, imageData.height))
  /\ UNCHANGED << canvasVars, imageData >>

\* no 2d context, or the matted image failed to load: reject
processImageRejects ==
  /\ imageData # NoImageData /\ processed = NoImageData
  /\ processed' = Resolved("rejected", << >>, Bounds(0, 0, 0, 0))
  /\ UNCHANGED << canvasVars, imageData >>

MattingInit ==
  /\ CanvasInit
  /\ imageData \in DecodedImages(MaxWidth, MaxHeight)
  /\ processed = NoImageData

MattingNext ==
  \/ processImageForTransparency
  \/ processImageUnreadable
  \/ processImageRejects

MattingSpec == MattingInit /\ [][MattingNext]_vars

\* Every await of a workflow in flight eventually resolves or rejects, and a
\* scheduled render eventually runs.
Continuation ==
  \E t \in TaskSet :
    \/ GenerationReturns(t)
    \/ GenerationFails(t)
    \/ MattingRejects(t)
    \/ SuggestionsFail(t)
    \/ \E k \in ImageIds, n \in SuggestionCounts : GenerationCompletes(t, k, n)

FairSpec == Spec /\ WF_vars(Continuation) /\ WF_vars(Render)

\* ------------------------------------------------ the reorder on its own
\* The functional update of handleInteractionStart applied to registries of
\* up to MaxListed ready sprites, in every order of their ids.
RECURSIVE Registries(_)
Registries(ids) ==
  IF ids = {} THEN { << >> }
  ELSE UNION { { Append(r, CompletedImage(NewTextImage(id), "text", 1, 2)) :
                   r \in Registries(ids \ {id}) } : id \in ids }

ReorderInit ==
  /\ \E ids \in SUBSET (0..(MaxListed - 1)) : images \in Registries(ids)
  /\ closureImages = images
  /\ selectedImageId = NoId
  /\ closureSelectedId = NoId
  /\ draggingImage = NoDrag
  /\ hoveredImageId = NoId
  /\ nextId = MaxListed
  /\ originalImageCache = {}
  /\ tasks = EmptyBag
  /\ events = 0
  /\ last = Event("init", NoId)
  /\ imageData = NoImageData
  /\ processed = NoImageData

ReorderNext ==
  \E targetImage \in { closureImages[i] : i \in 1..Len(closureImages) } :
    /\ images' = BringToFront(images, targetImage)
    /\ closureImages' = images'
    /\ last' = Event("BringToFront", targetImage.id)
    /\ UNCHANGED << selectedImageId, closureSelectedId, draggingImage, hoveredImageId,
                    nextId, originalImageCache, tasks, events, imageData, processed >>

ReorderSpec == ReorderInit /\ [][ReorderNext]_vars

\* ------------------------------------------------------------ properties
Sprites(imgs) == { imgs[i] : i \in 1..Len(imgs) }
IsGenerating(imgs, id) == \E img \in Sprites(imgs) : img.id = id /\ img.isGenerating
TasksOf(id) == { t \in TaskSet : t.id = id }

ContinuationOps ==
  {"GenerationReturns", "GenerationFails", "MattingRejects", "SuggestionsFail",
   "GenerationCompletes"}
SubmissionOps ==
  {"handleTextSubmit", "addImageToCanvas", "handleMultipleImageUpload",
   "handleDuplicateSelected", "handleRemixSubmit"}
GuardedOps ==
  {"handleRegenerateSelected", "handleFlipSelected", "handleDuplicateSelected",
   "handleDeleteSelected", "handleRemixSubmit", "handleScaleChange"}

\* C1: a step of a generation workflow (its call returning, failing, or its
\* completion patch) whose sprite id is no longer in the registry leaves the
\* registry exactly as it was.
C1_CompletionAfterRemovalIsNoOp ==
  [][(last'.op \in ContinuationOps /\ last'.id \notin Ids(images)) => images' = images]_vars

\* A generation completed successfully for an id that a reset had removed,
\* while another sprite was in the registry.
C1_Witness ==
  /\ last.op = "GenerationCompletes"
  /\ last.id \notin Ids(images)
  /\ images # << >>

\* C2: when the suggestion call of a workflow fails, its sprite stays in the
\* registry and is ready, with its image and an empty suggestion list.
C2_SuggestionFailureKeepsSprite ==
  [][(last'.op = "SuggestionsFail" /\ last'.id \in Ids(images)) =>
       LET img == Find(images', last'.id)
       IN /\ img # NoImage
          /\ ~img.isGenerating
          /\ img.processedImage # NullImage
          /\ img.remixSuggestions = 0]_vars

C4_DisabledActionsAreNoOps ==
  [][(isActionDisabled /\ last'.op \in GuardedOps) => images' = images]_vars

\* C5: no sprite id has more than one generation workflow in flight.
C5_OneGenerationPerId ==
  \A t \in TaskSet : CopiesIn(t, tasks) = 1 /\ TasksOf(t.id) = {t}

\* A regeneration is in flight for the selected sprite, which is generating.
C5_Witness ==
  /\ last.op = "handleRegenerateSelected"
  /\ IsGenerating(images, last.id)
  /\ selectedImage # NoImage /\ selectedImage.id = last.id
  /\ TasksOf(last.id) # {}

\* C6: sprite ids in the registry are pairwise distinct; every id in use is
\* below the counter; the counter never decreases, and a step that assigns an
\* id assigns the counter's value, which no sprite, workflow or cache entry
\* carries, and moves the counter one up (so also after a reset).
C6_IdsUniqueAndNeverReused ==
  /\ [](/\ Cardinality(Ids(images)) = Len(images)
        /\ \A id \in Ids(images) \cup Ids(closureImages) \cup originalImageCache
                     \cup { t.id : t \in TaskSet } : id < nextId)
  /\ [][/\ nextId' >= nextId
        /\ nextId' # nextId =>
             /\ nextId' = nextId + 1
             /\ Ids(images') = Ids(images) \cup {nextId}
             /\ images'[Len(images')].id = nextId
             /\ \A id \in Ids(images) : id < nextId]_vars

\* An id was assigned after a reset emptied the registry: the new sprite's
\* id is the counter's value, not 0 again.
C6_Witness ==
  /\ last.op \in SubmissionOps
  /\ Len(images) = 1
  /\ images[1].id = 1
  /\ nextId = 2

\* C7: once the cleanup after a registry change has run (no render is
\* pending), the original-image cache has entries only for ids in the registry.
C7_NoDanglingCacheEntry ==
  ~RenderPending => originalImageCache \subseteq Ids(images)

\* C8: a sprite that is generating eventually is ready or removed.
C8_GeneratingEventuallySettles ==
  \A id \in 0..(MaxSprites - 1) :
    IsGenerating(images, id) ~> ~IsGenerating(images, id)

\* C9: duplicating the selected ready sprite appends one sprite and changes
\* nothing else: the copy is ready, has a fresh id, the source's scale factor,
\* flip flag, image, content bounds and base size, and sits 40 right and 20
\* below the source.
C9_DuplicateCopiesSprite ==
  [][last'.op = "handleDuplicateSelected" =>
       LET src == Find(images, last'.id)
           copy == images'[Len(images')]
       IN /\ src # NoImage
          /\ Len(images') = Len(images) + 1
          /\ SubSeq(images', 1, Len(images)) = images
          /\ copy.id \notin Ids(images)
          /\ ~copy.isGenerating
          /\ copy.scale = src.scale
          /\ copy.flippedHorizontally = src.flippedHorizontally
          /\ copy.processedImage = src.processedImage
          /\ copy.contentBounds = src.contentBounds
          /\ copy.width = src.width /\ copy.height = src.height
          /\ copy.x = src.x + Px(40) /\ copy.y = src.y + Px(20)]_vars

\* A flipped or rescaled sprite has just been duplicated.
C9_Witness ==
  /\ last.op = "handleDuplicateSelected"
  /\ Len(images) = 2
  /\ images[2].scale \in {12, 15, 20} \/ images[2].flippedHorizontally

\* Pointer positions the hit test is evaluated at: a grid over the canvas.
PointGrid ==
  { [x |-> Px(GridStep * i), y |-> Px(GridStep * j)] :
      i \in 0..(CanvasWidth \div GridStep), j \in 0..(CanvasHeight \div GridStep) }

\* the sprite's on-screen rectangle [x, x + width * scale] x [y, y + height * scale]
OnScreen(img, p) ==
  /\ 10 * img.x <= 10 * p.x
  /\ 10 * p.x <= 10 * img.x + img.width * Scale10(img)
  /\ 10 * img.y <= 10 * p.y
  /\ 10 * p.y <= 10 * img.y + img.height * Scale10(img)

\* C10: whenever the hit test returns a sprite, the pointer lies in that
\* sprite's on-screen rectangle, its base size times its scale factor.
C10_HitIsInsideScaledRectangle ==
  \A p \in PointGrid :
    LET hit == getImageAtPosition(images, p.x, p.y)
    IN hit # NoImage => OnScreen(hit, p)

\* The hit test returns a ready sprite with a scale factor above 1 at a point
\* beyond its unscaled rectangle.
C10_Witness ==
  \E p \in PointGrid :
    LET hit == getImageAtPosition(images, p.x, p.y)
    IN /\ hit # NoImage
       /\ ~hit.isGenerating
       /\ hit.scale \in {12, 15, 20}
       /\ p.x > hit.x + hit.width \/ p.y > hit.y + hit.height

\* the sprite's content bounds on screen, unflipped: contentBounds scaled by
\* (on-screen size / image pixel size), relative to the sprite's corner;
\* all sides multiplied by 10 * Sub * (image width or height)
OnContent(img, p) ==
  LET iw == GeneratedImages[img.processedImage].width
      ih == GeneratedImages[img.processedImage].height
      b == img.contentBounds
  IN /\ b.x * img.width * Scale10(img) <= 10 * Sub * iw * (p.x - img.x)
     /\ 10 * Sub * iw * (p.x - img.x) <= (b.x + b.width) * img.width * Scale10(img)
     /\ b.y * img.height * Scale10(img) <= 10 * Sub * ih * (p.y - img.y)
     /\ 10 * Sub * ih * (p.y - img.y) <= (b.y + b.height) * img.height * Scale10(img)

\* C11: for a generating sprite and a pointer in its rectangle, the hit test
\* returns that sprite unless a sprite above it has the pointer in its
\* rectangle; the content bounds and the image it holds play no part.
C11_GeneratingHitOnFullRectangle ==
  \A p \in PointGrid, i \in 1..Len(images) :
    (images[i].isGenerating /\ OnScreen(images[i], p)) =>
      LET hit == getImageAtPosition(images, p.x, p.y)
      IN /\ hit # NoImage
         /\ \/ hit = images[i]
            \/ \E j \in (i + 1)..Len(images) : hit = images[j] /\ OnScreen(images[j], p)

\* The hit test returns a generating sprite that holds an image, at a point
\* of its rectangle outside its scaled content bounds.
C11_Witness ==
  \E p \in PointGrid :
    LET hit == getImageAtPosition(images, p.x, p.y)
    IN /\ hit # NoImage
       /\ hit.isGenerating
       /\ hit.processedImage # NullImage
       /\ ~OnContent(hit, p)

\* what it takes for one sprite to match the pointer
Matches(img, p) ==
  /\ OnScreen(img, p)
  /\ \/ img.isGenerating
     \/ img.processedImage # NullImage /\ OnContent(img, p)

\* C12: a ready sprite is returned only for a pointer inside its scaled
\* content bounds, and a ready sprite whose rectangle but not whose scaled
\* content bounds holds the pointer does not stop the search: a matching
\* sprite below it is still found.
C12_ReadyHitOnlyOnContent ==
  \A p \in PointGrid :
    LET hit == getImageAtPosition(images, p.x, p.y)
    IN /\ (hit # NoImage /\ ~hit.isGenerating) =>
            hit.processedImage # NullImage /\ OnScreen(hit, p) /\ OnContent(hit, p)
       /\ \A i \in 1..Len(images) :
            Matches(images[i], p) =>
              /\ hit # NoImage
              /\ \E j \in i..Len(images) : hit = images[j]

\* A ready sprite has the pointer in its rectangle outside its scaled content
\* bounds, and the hit test returns a sprite below it.
C12_Witness ==
  \E p \in PointGrid, i \in 1..Len(images) :
    LET hit == getImageAtPosition(images, p.x, p.y)
    IN /\ ~images[i].isGenerating
       /\ OnScreen(images[i], p) /\ ~OnContent(images[i], p)
       /\ \E j \in 1..(i - 1) : hit = images[j]

\* C13: the hit test returns nothing when no sprite matches the pointer, and
\* otherwise the matching sprite that is last in the registry, which is the
\* one of the matching sprites that drawCanvas paints last.
C13_TopmostMatchWins ==
  \A p \in PointGrid :
    LET hit == getImageAtPosition(images, p.x, p.y)
        matching == { i \in 1..Len(images) : Matches(images[i], p) }
        painted == drawCanvas(images)
    IN IF matching = {}
       THEN hit = NoImage
       ELSE \E i \in matching :
              /\ hit = images[i]
              /\ \A j \in matching : j <= i
              /\ painted[i] = hit.id
              /\ \A j \in matching \ {i} :
                   \E k \in 1..(i - 1) : painted[k] = images[j].id

\* Two sprites match the same pointer and the hit test returns the later one.
C13_Witness ==
  \E p \in PointGrid :
    /\ Len(images) = 2
    /\ Matches(images[1], p) /\ Matches(images[2], p)
    /\ getImageAtPosition(images, p.x, p.y) = images[2]

\* the sprite's content bounds on screen as drawCanvas paints a flipped
\* sprite: reflected about the vertical centre line of its rectangle
OnMirroredContent(img, p) ==
  LET iw == GeneratedImages[img.processedImage].width
      ih == GeneratedImages[img.processedImage].height
      b == img.contentBounds
      sw == img.width * Scale10(img)
      sh == img.height * Scale10(img)
      mirroredX == sw - 10 * (p.x - img.x)       \* 10 * (scaledWidth - localX)
  IN /\ b.x * sw <= Sub * iw * mirroredX
     /\ Sub * iw * mirroredX <= (b.x + b.width) * sw
     /\ b.y * sh <= 10 * Sub * ih * (p.y - img.y)
     /\ 10 * Sub * ih * (p.y - img.y) <= (b.y + b.height) * sh

\* C14: a flipped ready sprite is returned by the hit test only for a pointer
\* inside its content bounds reflected about the vertical centre line of its
\* rectangle.
C14_FlippedHitIsMirrored ==
  \A p \in PointGrid :
    LET hit == getImageAtPosition(images, p.x, p.y)
    IN (hit # NoImage /\ ~hit.isGenerating /\ hit.flippedHorizontally) =>
         OnMirroredContent(hit, p)

\* C15: a press at p that hits sprite s (as the handler sees the registry)
\* selects s, makes s the last element of the registry, keeping the others in
\* their order, and starts a drag for s with offset p - (position of s); a
\* press that hits nothing clears the selection and leaves the drag state as
\* it was.
C15_PressSelectsRaisesAndGrabs ==
  [][\A p \in Points :
       handleInteractionStart(p) =>
         LET s == getImageAtPosition(closureImages, p.x, p.y)
         IN IF s # NoImage
            THEN /\ selectedImageId' = s.id
                 /\ images' # << >>
                 /\ images'[Len(images')].id = s.id
                 /\ drawCanvas(SubSeq(images', 1, Len(images') - 1)) =
                      drawCanvas(Filter(images, s.id))
                 /\ draggingImage'.id = s.id
                 /\ draggingImage'.offsetX = p.x - images'[Len(images')].x
                 /\ draggingImage'.offsetY = p.y - images'[Len(images')].y
            ELSE /\ selectedImageId' = NoId
                 /\ draggingImage' = draggingImage
                 /\ images' = images]_vars

\* A press hit the lower of two sprites: it is now selected, last in the
\* registry and held by the drag session.
C15_Witness ==
  /\ last.op = "handleInteractionStart"
  /\ Len(images) = 2
  /\ images[2].id = 0 /\ images[1].id = 1
  /\ selectedImageId = 0
  /\ draggingImage.id = 0

\* C16: with a drag session active, a move to p puts the dragged sprite at
\* p - (recorded offset), whatever the result, and changes nothing else in
\* the registry; when no sprite has the dragged id the registry stays as it is.
C16_DragMovesOnlyTheDraggedSprite ==
  [][\A p \in Points :
       (draggingImage # NoDrag /\ handleInteractionMove(p)) =>
         /\ Len(images') = Len(images)
         /\ \A i \in 1..Len(images) :
              images'[i] =
                IF images[i].id = draggingImage.id
                THEN [images[i] EXCEPT !.x = p.x - draggingImage.offsetX,
                                       !.y = p.y - draggingImage.offsetY]
                ELSE images[i]
         /\ draggingImage' = draggingImage
         /\ selectedImageId' = selectedImageId]_vars

\* A move has dragged a sprite so that its rectangle reaches beyond the
\* canvas.
C16_Witness ==
  /\ last.op = "handleInteractionMove"
  /\ last.id # NoId
  /\ \E img \in Sprites(images) :
       /\ img.id = last.id
       /\ \/ img.x + img.width > Px(CanvasWidth)
          \/ img.y + img.height > Px(CanvasHeight)

\* C17: a release ends the drag session and changes neither the registry nor
\* the selection, and a move with no drag session active changes no sprite.
C17_ReleaseEndsDrag ==
  [][/\ handleInteractionEnd =>
          /\ draggingImage' = NoDrag
          /\ images' = images
          /\ selectedImageId' = selectedImageId
     /\ \A p \in Points :
          (draggingImage = NoDrag /\ handleInteractionMove(p)) =>
            /\ images' = images
            /\ selectedImageId' = selectedImageId
            /\ draggingImage' = NoDrag]_vars

\* A drag that moved a sprite beyond the canvas has just been released; the
\* sprite is still selected.
C17_Witness ==
  /\ last.op = "handleInteractionEnd"
  /\ draggingImage = NoDrag
  /\ selectedImageId = last.id
  /\ \E img \in Sprites(images) :
       img.id = last.id /\ img.x + img.width > Px(CanvasWidth)

\* centre of the sprite's base rectangle is the canvas centre (doubled, to
\* stay in whole numbers)
CentredOnCanvas(img) ==
  /\ 2 * img.x + img.width = Px(CanvasWidth)
  /\ 2 * img.y + img.height = Px(CanvasHeight)

\* C18: a submitted text prompt appends a generating sprite centred on the
\* canvas centre; when its first generation succeeds with an image of w x h
\* pixels and the placeholder was not moved, the sprite is ready, 375 wide and
\* 375 * h / w high (281.25 for 400 x 300), and still centred on the canvas
\* centre.
C18_TextSpriteKeepsCanvasCentre ==
  [][/\ last'.op = "handleTextSubmit" =>
          LET new == images'[Len(images')]
          IN /\ Len(images') = Len(images) + 1
             /\ new.id = last'.id
             /\ new.isGenerating
             /\ CentredOnCanvas(new)
     /\ \A i \in 1..Len(images) :
          (/\ last'.op = "GenerationCompletes"
           /\ images[i].id = last'.id
           /\ images[i] = NewTextImage(last'.id)) =>
            LET done == images'[i]
                w == GeneratedImages[done.processedImage].width
                h == GeneratedImages[done.processedImage].height
            IN /\ ~done.isGenerating
               /\ done.processedImage \in ImageIds
               /\ done.width = Px(375)
               /\ done.height * w = Px(375) * h
               /\ (w = 400 /\ h = 300) => 4 * done.height = Px(1125)
               /\ CentredOnCanvas(done)]_vars

\* The first generation of an unmoved text sprite has completed with the
\* 400 x 300 image: the sprite is 375 x 281.25 around the canvas centre.
C18_Witness ==
  /\ last.op = "GenerationCompletes"
  /\ \E img \in Sprites(images) :
       /\ img.id = last.id
       /\ img.source = "text"
       /\ ~img.isGenerating
       /\ img.processedImage = 1
       /\ img.width = Px(375) /\ 4 * img.height = Px(1125)
       /\ CentredOnCanvas(img)

\* twenty times the centre of the sprite's on-screen rectangle
\* [x, x + width * scale] x [y, y + height * scale]
OnScreenCentre(img) ==
  << 20 * img.x + img.width * Scale10(img), 20 * img.y + img.height * Scale10(img) >>

\* C19: a successful completion leaves the centre of the sprite's on-screen
\* rectangle where it was just before the completion.
C19_CompletionKeepsOnScreenCentre ==
  [][last'.op = "GenerationCompletes" =>
       \A i \in 1..Len(images) :
         images[i].id = last'.id =>
           OnScreenCentre(images'[i]) = OnScreenCentre(images[i])]_vars

\* squared RGB distance of pixel n of data to its top-left pixel
DistanceSquared(data, n) ==
  LET d(c) == data[4 * n + c] - data[c]
  IN d(1) * d(1) + d(2) * d(2) + d(3) * d(3)

\* pixels of the matted image whose alpha is above 0
Kept == { n \in 0..(processed.width * processed.height - 1) : processed.data[4 * n + 4] > 0 }

\* C20: after matting, every pixel has the RGB values it came with, and alpha
\* 0 if its squared RGB distance to the top-left pixel is below 400 and the
\* alpha it came with otherwise; when a pixel with alpha above 0 is left,
\* contentBounds is the smallest rectangle holding all of them, with
\* width = maxX - minX + 1 and height = maxY - minY + 1, inside the image.
C20_MattingBoundsAreTight ==
  (processed # NoImageData /\ processed.path = "matted") =>
    LET w == processed.width
        h == processed.height
        b == processed.contentBounds
    IN /\ w = imageData.width /\ h = imageData.height
       /\ Len(processed.data) = Len(imageData.data)
       /\ \A n \in 0..(w * h - 1) :
            /\ \A c \in 1..3 : processed.data[4 * n + c] = imageData.data[4 * n + c]
            /\ processed.data[4 * n + 4] =
                 IF DistanceSquared(imageData.data, n) < 400
                 THEN 0 ELSE imageData.data[4 * n + 4]
       /\ Kept # {} =>
            /\ \A n \in Kept :
                 /\ b.x <= n % w /\ n % w <= b.x + b.width - 1
                 /\ b.y <= n \div w /\ n \div w <= b.y + b.height - 1
            /\ \E n \in Kept : n % w = b.x
            /\ \E n \in Kept : n % w = b.x + b.width - 1
            /\ \E n \in Kept : n \div w = b.y
            /\ \E n \in Kept : n \div w = b.y + b.height - 1
            /\ 0 <= b.x /\ 0 <= b.y /\ b.x + b.width <= w /\ b.y + b.height <= h

\* An image was matted in which a pixel exactly at squared distance 400 kept
\* its alpha, a pixel nearer to the background lost it, and the bounds are
\* two pixels wide and narrower than the image.
C20_Witness ==
  /\ processed # NoImageData /\ processed.path = "matted"
  /\ \E n \in Kept : DistanceSquared(imageData.data, n) = 400
  /\ \E n \in 1..(processed.width * processed.height - 1) :
       /\ DistanceSquared(imageData.data, n) < 400
       /\ imageData.data[4 * n + 4] > 0
       /\ processed.data[4 * n + 4] = 0
  /\ processed.contentBounds.width = 2
  /\ processed.contentBounds.width < processed.width

\* C21: when matting leaves no pixel with alpha above 0, contentBounds is
\* the whole image rectangle {0, 0, width, height}.
C21_NothingLeftGivesFullRectangle ==
  (processed # NoImageData /\ processed.path = "matted" /\ Kept = {}) =>
    /\ processed.contentBounds = [x |-> 0, y |-> 0, width |-> imageData.width,
                                  height |-> imageData.height]
    /\ processed.contentBounds.width > 0 /\ processed.contentBounds.height > 0

\* An image of one uniform opaque colour, more than one pixel large, has been
\* matted: no pixel is left and the bounds are the whole image.
C21_Witness ==
  /\ processed # NoImageData /\ processed.path = "matted"
  /\ Kept = {}
  /\ imageData.width * imageData.height > 1
  /\ \A n \in 0..(imageData.width * imageData.height - 1) :
       /\ imageData.data[4 * n + 4] = 255
       /\ DistanceSquared(imageData.data, n) = 0

\* C22: whatever fails inside processImageForTransparency, the promise
\* resolves: with the matted image, or with the image as it came and the
\* whole rectangle as contentBounds; it never rejects.
C22_MattingNeverRejects ==
  processed # NoImageData =>
    \/ processed.path = "matted"
    \/ /\ processed.path = "original"
       /\ processed.data = imageData.data
       /\ processed.contentBounds = [x |-> 0, y |-> 0, width |-> imageData.width,
                                     height |-> imageData.height]

\* C23: the effective scale factor of every sprite (an absent one counts as
\* 1) is one of 1, 1.2, 1.5, 2; the scale action writes one of these four to
\* the sprite it names; and a successful generation from text or from a
\* single image leaves its sprite with scale 1.
C23_ScaleIsOneOfFour ==
  /\ [](\A img \in Sprites(images) : Scale10(img) \in SCALE_OPTIONS)
  /\ [][/\ last'.op = "handleScaleChange" =>
             \A img \in Sprites(images') :
               img.id = last'.id => img.scale \in SCALE_OPTIONS
        /\ \A t \in TaskSet, k \in ImageIds, n \in SuggestionCounts :
             (GenerationCompletes(t, k, n) /\ t.fn # "multi" /\ t.id \in Ids(images)) =>
               Find(images', t.id).scale = 10]_vars

\* A sprite enlarged to 2x stands next to one whose generation has just
\* completed, which is at scale 1.
C23_Witness ==
  /\ last.op = "GenerationCompletes"
  /\ last.id \in Ids(images)
  /\ Find(images, last.id).scale = 10
  /\ \E img \in Sprites(images) : img.id # last.id /\ img.scale = 20

\* C24: the reorder-to-top applied to the sprite that is already last leaves
\* the order as it is; applying it a second time to the same sprite changes
\* nothing more; the other sprites keep their relative order; and the sprite
\* it names ends last.
C24_ReorderToTopIsIdempotent ==
  [][last'.op = "BringToFront" =>
       LET targetImage == Find(images, last'.id)
       IN /\ images[Len(images)].id = last'.id => images' = images
          /\ BringToFront(images', targetImage) = images'
          /\ Filter(images', last'.id) = Filter(images, last'.id)
          /\ images'[Len(images')] = targetImage]_vars

\* Four sprites after a reorder that moved one of them: the raised sprite is
\* last and the ids are no longer in ascending order.
C24_Witness ==
  /\ last.op = "BringToFront"
  /\ Len(images) = 4
  /\ images[4].id = last.id
  /\ drawCanvas(images) = << 3, 0, 2, 1 >>

\* C25: a text submission, an image submission, a remix and a regeneration
\* each start a generation call, and whenever a generation call for an id is
\* started the registry holds the sprite with that id, in generating state.
C25_RegisteredBeforeGenerationStarts ==
  [][LET started == { t \in BagToSet(tasks') :
                        t.stage = "generate" /\ CopiesIn(t, tasks') > CopiesIn(t, tasks) }
     IN /\ \A t \in started : IsGenerating(images', t.id)
        /\ last'.op \in {"handleTextSubmit", "addImageToCanvas", "handleRemixSubmit",
                         "handleRegenerateSelected"} => started # {}]_vars

\* A regeneration has just been started for a sprite that shows its image:
\* its workflow is at the generation call and the sprite is generating.
C25_Witness ==
  /\ last.op = "handleRegenerateSelected"
  /\ \E t \in TasksOf(last.id) : t.stage = "generate"
  /\ IsGenerating(images, last.id)
  /\ Find(images, last.id).processedImage # NullImage

\* C26: the completion or the failure of the generation for one id touches
\* that sprite only: every other sprite keeps all its fields and the sprites
\* keep their relative order, in whatever order the generations in flight
\* end.
C26_SettlingTouchesOneSprite ==
  [][last'.op \in {"GenerationCompletes", "GenerationFails", "MattingRejects",
                   "SuggestionsFail"} =>
       /\ Filter(images', last'.id) = Filter(images, last'.id)
       /\ last'.op = "GenerationCompletes" => drawCanvas(images') = drawCanvas(images)
       /\ drawCanvas(Filter(images', last'.id)) = drawCanvas(Filter(images, last'.id))]_vars

\* Two generations were in flight and the one submitted later has completed
\* first: its sprite is ready, the earlier sprite is still generating with
\* its workflow pending.
C26_Witness ==
  /\ last.op = "GenerationCompletes"
  /\ last.id \in Ids(images)
  /\ ~IsGenerating(images, last.id)
  /\ \E img \in Sprites(images) :
       img.id < last.id /\ img.isGenerating /\ TasksOf(img.id) # {}

\* C27: a pointer move while no drag is active leaves the registry, the
\* selection and the drag state as they are; it sets the hovered id to the
\* id of the sprite under the pointer (as the handler sees the registry)
\* when that sprite is not generating, and to none otherwise.
C27_MoveWithoutDragOnlyHovers ==
  [][\A p \in Points :
       (handleInteractionMove(p) /\ draggingImage = NoDrag) =>
         LET hit == getImageAtPosition(closureImages, p.x, p.y)
         IN /\ images' = images
            /\ selectedImageId' = selectedImageId
            /\ draggingImage' = NoDrag
            /\ hoveredImageId' = IF hit # NoImage /\ ~hit.isGenerating THEN hit.id ELSE NoId]_vars

\* A move without a drag has put the hover on a ready sprite while the
\* other sprite of the registry is generating.
C27_Witness ==
  /\ last = Event("handleInteractionMove", NoId)
  /\ draggingImage = NoDrag
  /\ hoveredImageId \in Ids(images)
  /\ ~IsGenerating(images, hoveredImageId)
  /\ \E img \in Sprites(images) : img.isGenerating

\* C28: a press changes the order of the registry only: the ids in it are the
\* same before and after, and every sprite has the field values the registry
\* held just before the press, so that a completion or a removal applied
\* since the last render is not undone.
C28_PressOnlyReorders ==
  [][\A p \in Points :
       handleInteractionStart(p) =>
         /\ Ids(images') = Ids(images)
         /\ Sprites(images') = Sprites(images)]_vars

\* C29: a sprite that is not generating holds an image; a sprite whose image
\* is null is generating.
C29_ReadySpriteHasImage ==
  \A img \in Sprites(images) : ~img.isGenerating => img.processedImage # NullImage

\* A completed sprite, holding its image, stands next to a placeholder that
\* has no image yet and is generating.
C29_Witness ==
  /\ \E img \in Sprites(images) : ~img.isGenerating /\ img.processedImage # NullImage
  /\ \E img \in Sprites(images) : img.isGenerating /\ img.processedImage = NullImage
  /\ last.op = "GenerationCompletes"

\* C30: every sprite that holds an image, ready or generating, is drawn into
\* the rectangle the hit test uses for it, from its position to its position
\* plus its base size times its scale; so is a sprite that is regenerating
\* at a scale other than 1.
C30_DrawnRectangleIsHitRectangle ==
  \A img \in Sprites(images) :
    img.processedImage # NullImage => DrawnRectangle(img) = HitRectangle(img)
====
